---- MODULE Spec2Model ----
(***************************************************************************)
(* Model of ScentSearch (src/app/retrieval/search.py): an in-memory store  *)
(* of scent descriptions, their sentence-encoder vectors and a flat L2     *)
(* index over those vectors, with add_scents (build) and search (query).   *)
(*                                                                         *)
(* Texts are small integers.  An optional value (Python None or an         *)
(* object) is a sequence of length 0 or 1.  A vector is a tuple of         *)
(* naturals, all of one length.  Distances are exact integers: the index   *)
(* compares a single query with every stored vector by the sum of squared  *)
(* differences.                                                            *)
(***************************************************************************)
EXTENDS Integers, Sequences, FiniteSets, TLC

\* ---------------------------------------------------------------- bounds
MaxN == 2       \* longest description list passed to add_scents
MaxK == 3       \* largest k passed to search

\* The texts descriptions are made of, and the texts queried: 2 is no
\* description and lies between the two that are.
CorpusTexts == {1, 3}
QueryTexts  == {1, 2, 3}
ModelNames  == {"line", "coarse"}
Ks          == 0..MaxK
\* The index library's release decides the outcome only for k < 1.
Releases(k) == IF k < 1 THEN BOOLEAN ELSE {TRUE}

RECURSIVE SeqsUpTo(_, _)
SeqsUpTo(S, n) ==
    IF n = 0 THEN {<<>>}
    ELSE LET shorter == SeqsUpTo(S, n - 1)
         IN  shorter \cup {Append(s, x) : s \in {t \in shorter : Len(t) = n - 1}, x \in S}

DescLists == SeqsUpTo(CorpusTexts, MaxN)

Range(s) == {s[i] : i \in DOMAIN s}

None     == <<>>
Some(x)  == <<x>>
IsNone(o) == Len(o) = 0
Val(o)   == o[1]

\* ------------------------------------------------------------ the encoder
\* SentenceTransformer(model_name).encode: a deterministic function of the
\* model identity and the text.  "line" is injective and puts text 2 at
\* equal distance from 1 and 3; "coarse" gives texts 1 and 3 one vector.
Embedding(m, t) ==
    IF m = "line" THEN <<t, 0>> ELSE <<0, t % 2>>

\* encode(list): one vector per text, aligned with the input.
EncodeBatch(m, ds) == [i \in DOMAIN ds |-> Embedding(m, ds[i])]

\* ------------------------------------------------------------ the index
\* faiss.IndexFlatL2: squared Euclidean distance, summed per component.
RECURSIVE SumSq(_, _, _)
SumSq(u, v, i) ==
    IF i > Len(u) THEN 0
    ELSE (u[i] - v[i]) * (u[i] - v[i]) + SumSq(u, v, i + 1)

SqL2(u, v) == SumSq(u, v, 1)

\* The distance of an unfilled result slot (the largest float32), above
\* every distance two encoded texts can have.
FltMax == 1000

\* A result slot before any vector is put in it: label -1.
EmptySlot == [dis |-> FltMax, id |-> -1]

\* A push that also takes a candidate as far as the worst kept, and puts it
\* before the kept slots at its distance.
Push_LaterWins(best, c) ==
    IF Len(best) = 0 \/ ~(c.dis <= best[Len(best)].dis) THEN best
    ELSE LET kept == SubSeq(best, 1, Len(best) - 1)
             pos  == Cardinality({i \in DOMAIN kept : kept[i].dis < c.dis})
         IN  SubSeq(kept, 1, pos) \o <<c>> \o SubSeq(kept, pos + 1, Len(kept))

\* Put candidate c in the list of the k best kept in ascending order, when it
\* is strictly closer than the worst kept: the worst is dropped, and c goes
\* after every kept slot that is not farther (vectors are scanned by
\* ascending id, so equal distances stay in id order).
Push(best, c) ==
    IF Len(best) = 0 \/ ~(c.dis < best[Len(best)].dis) THEN best
    ELSE LET kept == SubSeq(best, 1, Len(best) - 1)
             pos  == Cardinality({i \in DOMAIN kept : kept[i].dis <= c.dis})
         IN  SubSeq(kept, 1, pos) \o <<c>> \o SubSeq(kept, pos + 1, Len(kept))

\* The linear scan of index.search: every stored vector, in id order.
RECURSIVE Scan(_, _, _, _)
Scan(xb, qv, j, best) ==
    IF j > Len(xb) THEN best
    ELSE Scan(xb, qv, j + 1, Push(best, [dis |-> SqL2(qv, xb[j]), id |-> j - 1]))

\* A scan that starts at the second stored vector.
FaissSearch_SkipsFirst(ix, qv, k) == Scan(ix.xb, qv, 2, [i \in 1..k |-> EmptySlot])

\* index.search(query_vector, k) for k >= 1: k slots, the unfilled ones
\* keeping label -1 and distance FltMax.
FaissSearch(ix, qv, k) == Scan(ix.xb, qv, 1, [i \in 1..k |-> EmptySlot])

\* ----------------------------------------------------------------- state
VARIABLES
    model_name,          \* self.model: the encoder's identity
    scent_descriptions,  \* self.scent_descriptions: a list of texts
    scent_vectors,       \* self.scent_vectors: None, or the encoded batch
    index,               \* self.index: None, or the flat index
    ret,                 \* what the last completed call did and returned
    history,             \* the add_scents calls so far, as far as claims need them
    builder,             \* a thread inside add_scents: its line and argument
    searcher,            \* a thread inside search: its line and locals
    parser,              \* a call of parse_sensor_data: its line and locals
    session_state,       \* st.session_state of one dashboard session
    dash                 \* the dashboard script: its data and the run's line

store == <<scent_descriptions, scent_vectors, index>>
vars  == <<model_name, scent_descriptions, scent_vectors, index, ret, history,
           builder, searcher, parser, session_state, dash>>

\* The variables of ScentSearch, of the log parser and of the dashboard:
\* three programs that share nothing.
search_vars == <<model_name, scent_descriptions, scent_vectors, index, ret, history,
                 builder, searcher>>
parse_vars  == <<parser>>
dash_vars   == <<session_state, dash>>

\* The parser and the dashboard when they are not run.
ParserOff  == [pc |-> "off", file |-> <<>>, lines |-> <<>>, i |-> 0, readings |-> <<>>]
SessionOff == [has_df |-> FALSE, sensor_df |-> <<>>, idx |-> 0]
DashOff    == [pc |-> "off", data |-> <<>>, interrupts |-> 0]
NotParsing   == parser = ParserOff
NotStreaming == session_state = SessionOff /\ dash = DashOff

\* The record of a call: the operation, its arguments, how it ended
\* ("ok" or the exception's name), the number of encoder calls it made,
\* and for a search the labels the index returned and the result list.
NoCall == [op |-> "none", arg |-> <<>>, q |-> 0, k |-> 0, outcome |-> "none",
           enc_calls |-> 0, I |-> <<>>, results |-> <<>>]

BuildRet(ds, outcome) ==
    [op |-> "add_scents", arg |-> ds, q |-> 0, k |-> 0, outcome |-> outcome,
     enc_calls |-> 1, I |-> <<>>, results |-> <<>>]

SearchRet(q, k, outcome, I, results) ==
    [op |-> "search", arg |-> <<>>, q |-> q, k |-> k, outcome |-> outcome,
     enc_calls |-> 1, I |-> I, results |-> results]

\* What is remembered of the add_scents calls: the list of the last call
\* that succeeded, the texts of the list that call replaced, and whether no
\* add_scents call has failed since.
NoHistory == [last |-> <<>>, prev |-> {}, clean |-> TRUE]

\* A thread outside any call.  In a searcher, slots are the (distance, label)
\* pairs index.search returned and src the list the searched index was
\* encoded from.
BuilderIdle  == [pc |-> "idle", arg |-> <<>>]
SearcherIdle == [pc |-> "idle", q |-> 0, k |-> 0, slots |-> <<>>, src |-> <<>>]

\* __init__: no descriptions, no vectors, no index.
Init ==
    /\ model_name \in ModelNames
    /\ scent_descriptions = <<>>
    /\ scent_vectors = None
    /\ index = None
    /\ ret = NoCall
    /\ history = NoHistory
    /\ builder = BuilderIdle
    /\ searcher = SearcherIdle
    /\ NotParsing
    /\ NotStreaming

\* ------------------------------------------------------------ add_scents
\* IndexFlatL2(dimension) followed by index.add(vectors).  src is not a field
\* of the index: it remembers the list the vectors were encoded from.
NewIndex(ds, xb) == [d |-> Len(xb[1]), xb |-> xb, src |-> ds]

\* An add_scents that appends to the corpus it finds instead of replacing it.
AddScents_Append(ds, enc_ok) ==
    LET all == scent_descriptions \o ds IN
    /\ scent_descriptions' = all
    /\ IF ~enc_ok
       THEN /\ ret' = BuildRet(ds, "EncoderError")
            /\ history' = [history EXCEPT !.clean = FALSE]
            /\ UNCHANGED <<scent_vectors, index>>
       ELSE /\ scent_vectors' = Some(EncodeBatch(model_name, all))
            /\ IF Len(all) = 0
               THEN /\ ret' = BuildRet(ds, "IndexError")
                    /\ history' = [history EXCEPT !.clean = FALSE]
                    /\ UNCHANGED index
               ELSE /\ index' = Some(NewIndex(all, EncodeBatch(model_name, all)))
                    /\ history' = [last |-> ds, prev |-> Range(history.last), clean |-> TRUE]
                    /\ ret' = BuildRet(ds, "ok")
    /\ UNCHANGED <<model_name, builder, searcher>>

\* add_scents(ds), the encoder answering (enc_ok) or raising.  The
\* descriptions are assigned first (line 30), then the vectors (line 31);
\* the shape[1] of an empty batch does not exist (line 34); the index is
\* replaced last (lines 35-36).
AddScents(ds, enc_ok) ==
    /\ scent_descriptions' = ds
    /\ IF ~enc_ok
       THEN /\ ret' = BuildRet(ds, "EncoderError")
            /\ history' = [history EXCEPT !.clean = FALSE]
            /\ UNCHANGED <<scent_vectors, index>>
       ELSE /\ scent_vectors' = Some(EncodeBatch(model_name, ds))
            /\ IF Len(ds) = 0
               THEN /\ ret' = BuildRet(ds, "IndexError")
                    /\ history' = [history EXCEPT !.clean = FALSE]
                    /\ UNCHANGED index
               ELSE /\ index' = Some(NewIndex(ds, EncodeBatch(model_name, ds)))
                    /\ history' = [last |-> ds, prev |-> Range(history.last), clean |-> TRUE]
                    /\ ret' = BuildRet(ds, "ok")
    /\ UNCHANGED <<model_name, builder, searcher>>

\* ---------------------------------------------------------------- search
\* Python's list[idx]: a negative idx counts from the end.
PyInRange(lst, idx) == -Len(lst) <= idx /\ idx < Len(lst)
PyIndex(lst, idx)   == IF idx >= 0 THEN lst[idx + 1] ELSE lst[Len(lst) + idx + 1]

\* The loop of lines 59-63: one (description, distance) pair per label.
FormatResults(descs, slots) ==
    [i \in DOMAIN slots |-> <<PyIndex(descs, slots[i].id), slots[i].dis>>]

Labels(slots) == [i \in DOMAIN slots |-> slots[i].id]

\* A search that answers from the previous search's results when the query
\* text is the same, whatever k is.
SearchOutcome_CachedByText(q, k, enc_ok, asserts_k) ==
    IF enc_ok /\ ret.op = "search" /\ ret.outcome = "ok" /\ ret.q = q
    THEN SearchRet(q, k, "ok", ret.I, ret.results)
    ELSE IF ~enc_ok THEN SearchRet(q, k, "EncoderError", <<>>, <<>>)
    ELSE IF IsNone(index) THEN SearchRet(q, k, "AttributeError", <<>>, <<>>)
    ELSE IF k < 1 THEN
         IF asserts_k THEN SearchRet(q, k, "AssertionError", <<>>, <<>>)
         ELSE SearchRet(q, k, "ok", <<>>, <<>>)
    ELSE LET slots == FaissSearch(Val(index), Embedding(model_name, q), k)
         IN  IF \E i \in DOMAIN slots : ~PyInRange(scent_descriptions, slots[i].id)
             THEN SearchRet(q, k, "IndexError", Labels(slots), <<>>)
             ELSE SearchRet(q, k, "ok", Labels(slots),
                            FormatResults(scent_descriptions, slots))

\* What search(q, k) returns or raises: the query is encoded first (line
\* 53), then the index is searched (line 56), then each label is looked up
\* in the descriptions.  For k < 1 the index library either fails an
\* assertion or returns no slot, depending on its release (asserts_k).
SearchOutcome(q, k, enc_ok, asserts_k) ==
    IF ~enc_ok THEN SearchRet(q, k, "EncoderError", <<>>, <<>>)
    ELSE IF IsNone(index) THEN SearchRet(q, k, "AttributeError", <<>>, <<>>)
    ELSE IF k < 1 THEN
         IF asserts_k THEN SearchRet(q, k, "AssertionError", <<>>, <<>>)
         ELSE SearchRet(q, k, "ok", <<>>, <<>>)
    ELSE LET slots == FaissSearch(Val(index), Embedding(model_name, q), k)
         IN  IF \E i \in DOMAIN slots : ~PyInRange(scent_descriptions, slots[i].id)
             THEN SearchRet(q, k, "IndexError", Labels(slots), <<>>)
             ELSE SearchRet(q, k, "ok", Labels(slots),
                            FormatResults(scent_descriptions, slots))

\* A search that keeps the encoded query in self.scent_vectors.
Search_KeepsQuery(q, k, enc_ok, asserts_k) ==
    /\ ret' = SearchOutcome(q, k, enc_ok, asserts_k)
    /\ scent_vectors' = IF enc_ok THEN Some(<<Embedding(model_name, q)>>)
                        ELSE scent_vectors
    /\ UNCHANGED <<model_name, scent_descriptions, index, history, builder, searcher>>

\* A search that catches the encoder's exception and returns no result.
Search_SwallowsEncoderError(q, k, enc_ok, asserts_k) ==
    /\ ret' = IF enc_ok THEN SearchOutcome(q, k, enc_ok, asserts_k)
              ELSE SearchRet(q, k, "ok", <<>>, <<>>)
    /\ UNCHANGED <<model_name, scent_descriptions, scent_vectors, index, history,
                   builder, searcher>>

\* search(q, k) assigns no field of the store.
Search(q, k, enc_ok, asserts_k) ==
    /\ ret' = SearchOutcome(q, k, enc_ok, asserts_k)
    /\ UNCHANGED <<model_name, scent_descriptions, scent_vectors, index, history,
                   builder, searcher>>

Next ==
    \/ /\ \E ds \in DescLists, enc_ok \in BOOLEAN : AddScents(ds, enc_ok)
       /\ UNCHANGED <<parse_vars, dash_vars>>
    \/ /\ \E q \in QueryTexts, k \in Ks, enc_ok \in BOOLEAN :
             \E asserts_k \in Releases(k) : Search(q, k, enc_ok, asserts_k)
       /\ UNCHANGED <<parse_vars, dash_vars>>

Spec == Init /\ [][Next]_vars

\* ------------------------------------------- two threads, line by line
\* The same two methods run by a builder thread and a searcher thread on one
\* store, which takes no lock: a step is one source line (the result loop of
\* lines 59-63 is one step), and the threads interleave between steps.  The
\* encoder answers every call here and every list built is non-empty, so
\* every build succeeds.

\* Line 30: the descriptions are assigned.
BuildAssign(ds) ==
    /\ builder.pc = "idle"
    /\ scent_descriptions' = ds
    /\ builder' = [pc |-> "L31", arg |-> ds]
    /\ UNCHANGED <<model_name, scent_vectors, index, ret, history, searcher>>

\* Line 31: the batch is encoded and the vectors are assigned.
BuildEncode ==
    /\ builder.pc = "L31"
    /\ scent_vectors' = Some(EncodeBatch(model_name, builder.arg))
    /\ builder' = [builder EXCEPT !.pc = "L35"]
    /\ UNCHANGED <<model_name, scent_descriptions, index, ret, history, searcher>>

\* Lines 34-36: a new index of the vectors' dimension is assigned and filled
\* from self.scent_vectors.
BuildIndex ==
    /\ builder.pc = "L35"
    /\ index' = Some(NewIndex(builder.arg, Val(scent_vectors)))
    /\ history' = [last |-> builder.arg, prev |-> Range(history.last), clean |-> TRUE]
    /\ builder' = BuilderIdle
    /\ UNCHANGED <<model_name, scent_descriptions, scent_vectors, ret, searcher>>

\* Line 53: the query is encoded.
SearchEncode(q, k) ==
    /\ searcher.pc = "idle"
    /\ searcher' = [pc |-> "L56", q |-> q, k |-> k, slots |-> <<>>, src |-> <<>>]
    /\ UNCHANGED <<model_name, scent_descriptions, scent_vectors, index, ret,
                   history, builder>>

\* Line 56: self.index is read and searched.
SearchIndex ==
    /\ searcher.pc = "L56"
    /\ IF IsNone(index)
       THEN /\ ret' = SearchRet(searcher.q, searcher.k, "AttributeError", <<>>, <<>>)
            /\ searcher' = SearcherIdle
       ELSE /\ searcher' = [searcher EXCEPT
                   !.pc = "L59",
                   !.slots = FaissSearch(Val(index), Embedding(model_name, searcher.q),
                                         searcher.k),
                   !.src = Val(index).src]
            /\ UNCHANGED ret
    /\ UNCHANGED <<model_name, scent_descriptions, scent_vectors, index, history,
                   builder>>

\* Lines 59-65: self.scent_descriptions is read for every label and the
\* result list is returned.
SearchFormat ==
    /\ searcher.pc = "L59"
    /\ ret' = IF \E i \in DOMAIN searcher.slots :
                    ~PyInRange(scent_descriptions, searcher.slots[i].id)
              THEN SearchRet(searcher.q, searcher.k, "IndexError",
                             Labels(searcher.slots), <<>>)
              ELSE SearchRet(searcher.q, searcher.k, "ok", Labels(searcher.slots),
                             FormatResults(scent_descriptions, searcher.slots))
    /\ searcher' = SearcherIdle
    /\ UNCHANGED <<model_name, scent_descriptions, scent_vectors, index, history,
                   builder>>

NextConc ==
    \/ (\E ds \in DescLists \ {<<>>} : BuildAssign(ds)) /\ UNCHANGED <<parse_vars, dash_vars>>
    \/ BuildEncode /\ UNCHANGED <<parse_vars, dash_vars>>
    \/ BuildIndex /\ UNCHANGED <<parse_vars, dash_vars>>
    \/ (\E q \in QueryTexts, k \in 1..MaxK : SearchEncode(q, k))
           /\ UNCHANGED <<parse_vars, dash_vars>>
    \/ SearchIndex /\ UNCHANGED <<parse_vars, dash_vars>>
    \/ SearchFormat /\ UNCHANGED <<parse_vars, dash_vars>>

SpecConc == Init /\ [][NextConc]_vars

\* ================================================================ claims
Built        == ~IsNone(index)
NStored      == Len(Val(index).xb)
\* The descriptions are the list the index was encoded from.
Consistent   == Built /\ scent_descriptions = Val(index).src
SearchDone   == ret.op = "search"
\* The last call was a search whose encoder call answered.
SearchRan    == SearchDone /\ ret.outcome # "EncoderError"
\* A step that is a search call, and one that is an add_scents call.
SearchStep   == /\ ret'.op = "search"
                /\ \E enc_ok \in BOOLEAN, asserts_k \in Releases(ret'.k) :
                      Search(ret'.q, ret'.k, enc_ok, asserts_k)
AddScentsStep == /\ ret'.op = "add_scents"
                 /\ \E enc_ok \in BOOLEAN : AddScents(ret'.arg, enc_ok)
Min(a, b)    == IF a < b THEN a ELSE b

\* C1: a search on a store no add_scents has succeeded on fails with
\* EmptyCorpusError and has made no encoder call.
C1_EmptyCorpusError ==
    (SearchRan /\ ~Built) =>
        (ret.outcome = "EmptyCorpusError" /\ ret.enc_calls = 0)

\* C2: on a store built from n >= 1 descriptions, a search with k > n
\* returns exactly n results, every stored item exactly once and no
\* placeholder.
C2_ClampToCorpusSize ==
    (SearchRan /\ Consistent /\ history.clean /\ ret.k > NStored) =>
        /\ ret.outcome = "ok"
        /\ Len(ret.results) = NStored
        /\ \A id \in 0..(NStored - 1) :
              Cardinality({i \in DOMAIN ret.I : ret.I[i] = id}) = 1
        /\ \A i \in DOMAIN ret.I : ret.I[i] >= 0

\* C3: an add_scents call that fails leaves the descriptions, the vectors
\* and the index as they were before the call.
C3_FailedBuildKeepsState ==
    [][(AddScentsStep /\ ret'.outcome # "ok") => UNCHANGED store]_vars

\* C4: a search running while another thread builds returns, for every
\* label found in the index, the description that label had in the list the
\* searched index was encoded from.
C4_SearchSeesOneState ==
    [][(SearchFormat /\ ret'.outcome = "ok") =>
          \A i \in DOMAIN searcher.slots :
              searcher.slots[i].id >= 0 =>
                  ret'.results[i][1] = searcher.src[searcher.slots[i].id + 1]]_vars

C6_MinKNSorted ==
    (SearchRan /\ Consistent /\ history.clean /\ ret.k >= 1) =>
        /\ ret.outcome = "ok"
        /\ Len(ret.results) = Min(ret.k, NStored)
        /\ \A i \in 1..(Len(ret.results) - 1) :
              ret.results[i][2] <= ret.results[i + 1][2]

\* C7: the results are the min(k, n) stored items nearest to the query in
\* squared Euclidean distance: each is a stored item at its true,
\* non-negative distance, and no item left out is strictly nearer.
C7_ExactNearest ==
    (SearchRan /\ Consistent /\ history.clean /\ ret.k >= 1) =>
        LET qv == Embedding(model_name, ret.q)
            xb == Val(index).xb
        IN  /\ ret.outcome = "ok"
            /\ Len(ret.results) = Min(ret.k, NStored)
            /\ \A i \in DOMAIN ret.I :
                  /\ ret.I[i] \in 0..(NStored - 1)
                  /\ ret.results[i][2] = SqL2(qv, xb[ret.I[i] + 1])
                  /\ ret.results[i][2] >= 0
            /\ \A i, j \in DOMAIN ret.I : i # j => ret.I[i] # ret.I[j]
            /\ \A j \in (0..(NStored - 1)) \ Range(ret.I) :
                  \A i \in DOMAIN ret.results :
                      SqL2(qv, xb[j + 1]) >= ret.results[i][2]

\* C8: a search call, whether it returns or raises, leaves the
\* descriptions, the vectors, the index (its dimension included) and the
\* encoder as they were.
C8_SearchIsPureRead ==
    [][SearchStep => UNCHANGED <<scent_descriptions, scent_vectors, index, model_name>>]_vars

\* A search has returned results from a built store.
C8_Witness ==
    SearchDone /\ ret.outcome = "ok" /\ Built /\ Len(ret.results) >= 1

\* The ids (0-based) of the stored vectors equal to that of id, below id.
SameVectorBefore(xb, id) == {j \in 0..(id - 1) : xb[j + 1] = xb[id + 1]}

\* C9 as claimed: when the query is one of the indexed descriptions, that
\* description is among the results at distance 0, the least distance.
C9_ExactMatchReturned ==
    (SearchDone /\ ret.outcome = "ok" /\ ret.k >= 1 /\ Consistent /\ history.clean
        /\ ret.q \in Range(scent_descriptions)) =>
        /\ \E i \in DOMAIN ret.results : ret.results[i] = <<ret.q, 0>>
        /\ \A i \in DOMAIN ret.results : ret.results[i][2] >= 0

\* C9 as amended: when the query is one of the descriptions the index was
\* encoded from, a search with k >= 1 that returns has at rank 0 a stored
\* vector identical to the query's, at distance 0, the least of all result
\* distances; and the item itself is among the labels found whenever fewer
\* than k stored items of smaller id have its vector.
C9_ExactMatchMinDistance ==
    (SearchDone /\ ret.outcome = "ok" /\ ret.k >= 1 /\ Built
        /\ ret.q \in Range(Val(index).src)) =>
        LET xb  == Val(index).xb
            src == Val(index).src
        IN  /\ ret.I[1] >= 0
            /\ xb[ret.I[1] + 1] = Embedding(model_name, ret.q)
            /\ ret.results[1][2] = 0
            /\ \A i \in DOMAIN ret.results : ret.results[i][2] >= ret.results[1][2]
            /\ \A id \in 0..(Len(src) - 1) :
                  (src[id + 1] = ret.q /\ Cardinality(SameVectorBefore(xb, id)) < ret.k)
                      => id \in Range(ret.I)

\* A search for a stored description returned it first, at distance 0, from
\* a store of two or more items.
C9_Witness ==
    /\ SearchDone /\ ret.outcome = "ok" /\ ret.k >= 1 /\ Built
    /\ NStored >= 2
    /\ ret.q \in Range(Val(index).src)
    /\ ret.results[1] = <<ret.q, 0>>

\* The answer of a search with k >= 1 written as a function of the
\* descriptions, the index, the encoder and the input alone: the stored ids
\* in order of (distance, id), cut or padded with label -1 to k places, each
\* looked up in the descriptions.
NearerOrEarlier(xb, qv, a, b) ==
    \/ SqL2(qv, xb[a + 1]) < SqL2(qv, xb[b + 1])
    \/ SqL2(qv, xb[a + 1]) = SqL2(qv, xb[b + 1]) /\ a < b

RefLabels(xb, qv, k) ==
    [r \in 1..k |->
        IF r > Len(xb) THEN -1
        ELSE CHOOSE id \in 0..(Len(xb) - 1) :
                 Cardinality({j \in 0..(Len(xb) - 1) : NearerOrEarlier(xb, qv, j, id)}) = r - 1]

RefAnswer(descs, ix, m, q, k) ==
    IF IsNone(ix) THEN <<"AttributeError", <<>>, <<>>>>
    ELSE LET xb == Val(ix).xb
             qv == Embedding(m, q)
             I  == RefLabels(xb, qv, k)
         IN  IF \E r \in 1..k : ~(-Len(descs) <= I[r] /\ I[r] < Len(descs))
             THEN <<"IndexError", I, <<>>>>
             ELSE <<"ok", I,
                    [r \in 1..k |->
                        <<descs[IF I[r] >= 0 THEN I[r] + 1 ELSE Len(descs) + I[r] + 1],
                          IF I[r] >= 0 THEN SqL2(qv, xb[I[r] + 1]) ELSE FltMax>>]>>

\* C10: what a search with k >= 1 returns or raises, once the encoder has
\* answered, is a function of the store (descriptions and index), the
\* encoder, the query text and k alone: two calls that agree on these agree
\* on the outcome, the descriptions, the distances and their order.
C10_AnswerIsFunctionOfStoreAndInput ==
    (SearchRan /\ ret.k >= 1) =>
        <<ret.outcome, ret.I, ret.results>> =
            RefAnswer(scent_descriptions, index, model_name, ret.q, ret.k)

\* A search returned two stored items at one distance.
C10_Witness ==
    /\ SearchDone /\ ret.outcome = "ok" /\ Len(ret.results) >= 2
    /\ ret.I[1] >= 0 /\ ret.I[2] >= 0
    /\ ret.results[1][2] = ret.results[2][2]

Uninitialized ==
    scent_descriptions = <<>> /\ scent_vectors = None /\ index = None

\* C12: add_scents of an empty list fails with EmptyCorpusError and leaves
\* an uninitialized store uninitialized.
C12_EmptyBuildRejected ==
    [][(AddScentsStep /\ ret'.arg = <<>> /\ ret'.outcome # "EncoderError") =>
          /\ ret'.outcome = "EmptyCorpusError"
          /\ Uninitialized => Uninitialized']_vars

\* C13: a search with k < 1 on a built store fails with
\* InvalidArgumentError and returns no list.
C13_NonPositiveKRejected ==
    (SearchRan /\ Built /\ ret.k < 1) => ret.outcome = "InvalidArgumentError"

\* C14: the store is either uninitialized, or built with the descriptions,
\* the vectors and the index all those of one list.
C14_TwoStates ==
    \/ Uninitialized
    \/ /\ Built
       /\ scent_descriptions = Val(index).src
       /\ scent_vectors = Some(Val(index).xb)
       /\ Val(index).xb = EncodeBatch(model_name, scent_descriptions)

\* A step that is a call in which the encoder raised.
EncoderRaisedStep ==
    \/ ret'.op = "add_scents" /\ AddScents(ret'.arg, FALSE)
    \/ /\ ret'.op = "search"
       /\ \E asserts_k \in Releases(ret'.k) : Search(ret'.q, ret'.k, FALSE, asserts_k)

\* C15: every call makes one encoder call at most, and a call in which the
\* encoder raised ends with the encoder's error.
C15_EncoderErrorPropagates ==
    [][/\ (AddScentsStep \/ SearchStep) => ret'.enc_calls <= 1
       /\ EncoderRaisedStep => ret'.outcome = "EncoderError"]_vars

\* The encoder raised in an add_scents on a built store.
C15_Witness ==
    ret.op = "add_scents" /\ ret.outcome = "EncoderError" /\ ret.enc_calls = 1 /\ Built

\* C16: the index holds one vector per description, the vector of id i that
\* of description i, and every label a search looked up is in 0..n-1.
C16_IndexMatchesDescriptions ==
    Built =>
        /\ NStored = Len(scent_descriptions)
        /\ Val(index).xb = EncodeBatch(model_name, scent_descriptions)
        /\ SearchDone => \A i \in DOMAIN ret.I : ret.I[i] \in 0..(NStored - 1)


\* ====================================================== parse_sensor_data
\* A line of the sensor log, by what the three patterns and float() make of
\* it: "gas", "temp" and "hum" match the pattern of their name with a number
\* float() accepts; "gas_bad" matches the gas pattern with a capture float()
\* rejects ("1.2.3" is in [\d\.]+); "other" matches no pattern.
LineKinds == {"gas", "gas_bad", "temp", "hum", "other"}

MaxLines == 6

\* The files: every sequence of at most MaxLines lines.  The number written on
\* a line is its line number in the file, counted from 0 as Python counts, so
\* that a reading tells which lines it was built from.
NumberLines(ks) == [p \in 1..Len(ks) |-> [kind |-> ks[p], val |-> p - 1]]
Files == {NumberLines(ks) : ks \in SeqsUpTo(LineKinds, MaxLines)}

\* lines[n] of the Python list.
PyLine(n) == parser.lines[n + 1]

\* re.search of the three patterns on lines i, i+1, i+2: all three match.
GroupMatches(n) ==
    /\ PyLine(n).kind \in {"gas", "gas_bad"}
    /\ PyLine(n + 1).kind = "temp"
    /\ PyLine(n + 2).kind = "hum"

\* float() of the three captures raises no ValueError.
FloatsParse(n) == PyLine(n).kind # "gas_bad"

Reading(n) == [gas_resistance |-> PyLine(n).val,
               temperature    |-> PyLine(n + 1).val,
               humidity       |-> PyLine(n + 2).val]

\* open and readlines, then readings = [] and i = 0; an exception leaves the
\* function through the outer except, which returns [].
ParseRead(readable) ==
    /\ parser.pc = "start"
    /\ parser' = IF readable
                 THEN [parser EXCEPT !.pc = "loop", !.lines = parser.file,
                                     !.i = 0, !.readings = <<>>]
                 ELSE [parser EXCEPT !.pc = "done", !.readings = <<>>]
    /\ UNCHANGED <<search_vars, dash_vars>>

\* The same iteration, resynchronising on the next line after a group that
\* does not parse.
ParseLoop_Resync ==
    /\ parser.pc = "loop"
    /\ parser.i < Len(parser.lines) - 2
    /\ parser' = IF GroupMatches(parser.i) /\ FloatsParse(parser.i)
                 THEN [parser EXCEPT !.i = @ + 3,
                                     !.readings = Append(@, Reading(parser.i))]
                 ELSE [parser EXCEPT !.i = @ + 1]
    /\ UNCHANGED <<search_vars, dash_vars>>

\* One iteration of the while loop.
ParseLoop ==
    /\ parser.pc = "loop"
    /\ parser.i < Len(parser.lines) - 2
    /\ parser' = [parser EXCEPT
                    !.i = @ + 3,
                    !.readings = IF GroupMatches(parser.i) /\ FloatsParse(parser.i)
                                 THEN Append(@, Reading(parser.i))
                                 ELSE @]
    /\ UNCHANGED <<search_vars, dash_vars>>

\* The loop condition is false: return readings.
ParseReturn ==
    /\ parser.pc = "loop"
    /\ ~(parser.i < Len(parser.lines) - 2)
    /\ parser' = [parser EXCEPT !.pc = "done"]
    /\ UNCHANGED <<search_vars, dash_vars>>

\* A call of parse_sensor_data on some file; no ScentSearch is involved.
InitParse ==
    /\ model_name = "line"
    /\ scent_descriptions = <<>>
    /\ scent_vectors = None
    /\ index = None
    /\ ret = NoCall
    /\ history = NoHistory
    /\ builder = BuilderIdle
    /\ searcher = SearcherIdle
    /\ \E f \in Files : parser = [ParserOff EXCEPT !.pc = "start", !.file = f]
    /\ NotStreaming

NextParse ==
    \/ \E readable \in BOOLEAN : ParseRead(readable)
    \/ ParseLoop
    \/ ParseReturn

\* The function runs in one thread that nothing stops: it takes its next
\* step whenever it has one.
SpecParse == InitParse /\ [][NextParse]_vars /\ WF_vars(NextParse)

\* The parser is in or past its loop.
ParseStarted == parser.pc \in {"loop", "done"} /\ parser.lines = parser.file

\* The number of whole groups of three lines in the file.
NGroups == Len(parser.lines) \div 3

\* Reading r was built from the lines 3g, 3g+1, 3g+2, which all matched.
BuiltFromGroup(r, g) ==
    /\ r = [gas_resistance |-> 3 * g, temperature |-> 3 * g + 1, humidity |-> 3 * g + 2]
    /\ GroupMatches(3 * g)

ParseInv ==
    ParseStarted =>
        /\ parser.i % 3 = 0
        /\ Len(parser.readings) <= NGroups
        /\ \A j \in 1..Len(parser.readings) :
              \E g \in 0..(NGroups - 1) :
                 /\ 3 * g < parser.i
                 /\ BuiltFromGroup(parser.readings[j], g)
        /\ \A j \in 1..(Len(parser.readings) - 1) :
              parser.readings[j].gas_resistance < parser.readings[j + 1].gas_resistance

\* A step that is one iteration of the loop.
ParseIteration == parser.pc = "loop" /\ parser'.pc = "loop" /\ parser' # parser

ParseIterationOK ==
    ParseIteration =>
        /\ parser'.i = parser.i + 3
        /\ ~GroupMatches(parser.i) => parser'.readings = parser.readings

\* C17: parse_sensor_data reads the file in groups of three lines.  Its loop
\* ends; every iteration moves i forward by exactly 3, whether or not the
\* group matched; every reading is built from the lines (3j, 3j+1, 3j+2) of
\* one group, in file order; there are at most floor(n/3) readings for n
\* lines; and a group that does not match is passed over without a reading.
C17_GroupsOfThree ==
    /\ []ParseInv
    /\ [][ParseIterationOK]_vars
    /\ <>(parser.pc = "done")

\* The parser has returned from a file of two groups, of which it kept the
\* second and passed over the first.
C17_Witness ==
    /\ parser.pc = "done"
    /\ Len(parser.lines) = 6
    /\ parser.i = 6
    /\ Len(parser.readings) = 1
    /\ parser.readings[1].gas_resistance = 3

\* =============================================== dashboard/pages/app.py
\* Streamlit runs the script from its first line on every rerun;
\* st.session_state outlives the runs of a session.  A run is in one of:
\*   "top"     about to start
\*   "render"  past the append of line 34, drawing (lines 36-84)
\*   "sleep"   past idx += 1 of line 86, in time.sleep before st.rerun()
\*   "ended"   finished, the loop condition being false
MaxRows == 4
MaxInterrupts == 2

\* load_data(): the rows of the CSV file, cached, the same in every run.  A
\* row is named by its place in the file.
DataFrames == {[p \in 1..n |-> p] : n \in 0..MaxRows}

\* Lines 23-25: the session state a run works on.
Initialized(ss) ==
    IF ss.has_df THEN ss ELSE [has_df |-> TRUE, sensor_df |-> <<>>, idx |-> 0]

\* A run from the top of the script to the append of line 34.
RunAppend ==
    /\ dash.pc = "top"
    /\ LET ss == Initialized(session_state)
       IN  /\ ss.idx < Len(dash.data)
           /\ session_state' =
                 [ss EXCEPT !.sensor_df = Append(@, dash.data[ss.idx + 1])]
    /\ dash' = [dash EXCEPT !.pc = "render"]
    /\ UNCHANGED <<search_vars, parse_vars>>

\* A run that finds idx = len(data): the loop is not entered and the script
\* ends without st.rerun().
RunEnd ==
    /\ dash.pc = "top"
    /\ LET ss == Initialized(session_state)
       IN  /\ ~(ss.idx < Len(dash.data))
           /\ session_state' = ss
    /\ dash' = [dash EXCEPT !.pc = "ended"]
    /\ UNCHANGED <<search_vars, parse_vars>>

\* Lines 36-86: the drawing is done, idx += 1.
Render ==
    /\ dash.pc = "render"
    /\ session_state' = [session_state EXCEPT !.idx = @ + 1]
    /\ dash' = [dash EXCEPT !.pc = "sleep"]
    /\ UNCHANGED <<search_vars, parse_vars>>

\* Lines 87-88: the sleep is over, st.rerun().
Rerun ==
    /\ dash.pc = "sleep"
    /\ dash' = [dash EXCEPT !.pc = "top"]
    /\ UNCHANGED <<session_state, search_vars, parse_vars>>

\* The user submits a value in the text input of line 13.  Streamlit asks
\* the session for a rerun: a run that is drawing is stopped at its next
\* st.* call, before line 86, and the script starts again; a script that has
\* ended is run again.  (During the sleep the request changes nothing: the
\* run reaches st.rerun() anyway.)
WidgetChange ==
    /\ dash.pc \in {"render", "ended"}
    /\ dash.interrupts < MaxInterrupts
    /\ dash' = [dash EXCEPT !.pc = "top", !.interrupts = @ + 1]
    /\ UNCHANGED <<session_state, search_vars, parse_vars>>

\* A browser session opens the page; no ScentSearch and no parser is involved.
InitStream ==
    /\ model_name = "line"
    /\ scent_descriptions = <<>>
    /\ scent_vectors = None
    /\ index = None
    /\ ret = NoCall
    /\ history = NoHistory
    /\ builder = BuilderIdle
    /\ searcher = SearcherIdle
    /\ NotParsing
    /\ session_state = SessionOff
    /\ \E d \in DataFrames : dash = [pc |-> "top", data |-> d, interrupts |-> 0]

RunStep == RunAppend \/ RunEnd \/ Render \/ Rerun

NextStream ==
    \/ RunAppend
    \/ RunEnd
    \/ Render
    \/ Rerun
    \/ WidgetChange

\* The script runner keeps running the script; the user may or may not
\* touch the widget.
SpecStream == InitStream /\ [][NextStream]_vars /\ WF_vars(RunStep)

\* The first n rows of the data, in order.
FirstRows(n) == SubSeq(dash.data, 1, n)

StreamInv ==
    session_state.has_df =>
        /\ session_state.idx <= Len(dash.data)
        /\ dash.pc \in {"top", "ended"} =>
              session_state.sensor_df = FirstRows(session_state.idx)

\* A run that reaches st.rerun() has appended one row and advanced idx by 1.
RunAdvances ==
    (dash.pc = "sleep" /\ dash'.pc = "top") =>
        Len(session_state.sensor_df) = session_state.idx

\* C18: the dashboard streams one row per script run.  Each run appends
\* exactly one row of the data and advances idx by exactly 1 before it
\* reruns, so that whenever a run starts sensor_df holds exactly the first
\* idx rows of the data in order, none skipped and none twice; idx never
\* exceeds len(data); and the streaming stops in the end, with idx =
\* len(data).
C18_OneRowPerRun ==
    /\ []StreamInv
    /\ [][RunAdvances]_vars
    /\ <>[](dash.pc = "ended" /\ session_state.idx = Len(dash.data))
====
